---- MODULE Spec2Model ----
(***************************************************************************)
(* SceneDetective: the retrying request layer (services/geminiService.ts), *)
(* the rolling audio buffer and WAV encoder (components/CameraView.tsx).   *)
(***************************************************************************)
EXTENDS Integers, Sequences, FiniteSets, TLC

VARIABLES
    \* services/geminiService.ts: the outbound calls
    calls,
    \* App.tsx: useState
    appState, analysisResult, boundingBoxes, errorMsg,
    \* components/CameraView.tsx: useState
    mediaSrc, mediaType, isPaused, query, isQueryDrawerOpen, localProcessing,
    \* the <video> element's paused property
    videoPaused,
    \* audioCtxRef / processorRef, the pending setup timer and the cleanup
    \* the audio effect returned last
    audioCtx, timerPending, cleanup,
    \* audioBufferRef, and the number of chunks pushed since it was last
    \* emptied
    audioBuffer, captured,
    \* audioBufferRef as the video's last pause event found it
    bufferAtPause,
    \* the handleSubmit invocation suspended at await blobToBase64
    pendingSubmit,
    \* what getSnapshot() returned in the step just taken, "none" when the
    \* step took no snapshot
    snapshot,
    \* an encodeWAV call on its own: its arguments and the buffer returned
    wav,
    \* a retryWithBackoff call on its own, fed a given outcome per attempt
    trial

appVars == <<appState, analysisResult, boundingBoxes, errorMsg>>

mediaVars == <<mediaSrc, mediaType, isPaused, videoPaused>>

formVars == <<query, isQueryDrawerOpen, localProcessing, pendingSubmit>>

audioVars == <<audioCtx, timerPending, cleanup, audioBuffer, captured, bufferAtPause>>

playerVars == <<mediaVars, formVars, audioVars>>

vars == <<calls, appVars, playerVars, snapshot, wav, trial>>

(***************************************************************************)
(* Bounds of the model.                                                    *)
(***************************************************************************)
\* the outbound calls that may exist side by side
CallIds == {1, 2}

(***************************************************************************)
(* Errors.  An error object is described by the fields the code inspects:  *)
(* whether it has a message and which indicator substrings the message     *)
(* contains, its numeric status, and its code (a number or a string).      *)
(***************************************************************************)
Indicators == {"429", "quota", "RESOURCE_EXHAUSTED"}

Statuses == {0, 429, 503}          \* 0: no status field

Codes == {"none", "n429", "sRESOURCE_EXHAUSTED"}   \* n429: the number 429

ServiceErrors ==
    [what : {"service"}, hasMsg : {TRUE}, msg : SUBSET Indicators,
     status : Statuses, code : Codes]
    \cup
    [what : {"service"}, hasMsg : {FALSE}, msg : {{}},
     status : Statuses, code : Codes]

\* new Error("No response text received from Gemini")
NoTextError ==
    [what |-> "notext", hasMsg |-> TRUE, msg |-> {}, status |-> 0, code |-> "none"]

\* the SyntaxError JSON.parse throws
ParseError ==
    [what |-> "syntax", hasMsg |-> TRUE, msg |-> {}, status |-> 0, code |-> "none"]

NoError ==
    [what |-> "noerror", hasMsg |-> FALSE, msg |-> {}, status |-> 0, code |-> "none"]

isRateLimitOrNoText(error) ==
    \/ (error.hasMsg /\ "429" \in error.msg)
    \/ error.status = 429
    \/ error.code = "n429"
    \/ (error.hasMsg /\ "quota" \in error.msg)
    \/ error.what = "notext"

\* error?.message?.includes('429') || error?.status === 429 ||
\* error?.code === 429 || error?.message?.includes('quota')
isRateLimit(error) ==
    \/ (error.hasMsg /\ "429" \in error.msg)
    \/ error.status = 429
    \/ error.code = "n429"
    \/ (error.hasMsg /\ "quota" \in error.msg)

(***************************************************************************)
(* The generative-AI service.  One attempt either throws an error or       *)
(* returns a response whose text is a (possibly empty) sequence of tokens; *)
(* an absent text and the empty string are both the empty sequence, the    *)
(* code tests them alike with !text.                                       *)
(***************************************************************************)
Texts ==
    { <<>>,
      <<"answer">>,
      <<"[", "]">>,
      <<"[", "box", "]">>,
      <<"FENCEJSON", "[", "box", "]", "FENCE">>,
      <<"FENCEJSON", "FENCE">>,
      <<"[", "{}", "]">>,
      <<"{}">>,
      <<"oops">> }

ServiceResponses ==
    [threw : {TRUE}, err : ServiceErrors, text : {<<>>}]
    \cup
    [threw : {FALSE}, err : {NoError}, text : Texts]

\* values an operation returns: an AnalysisResult or the parsed JSON
NoValue == [tag |-> "none", answer |-> <<>>, items |-> <<>>]

\* outcomes of an operation; id tells the attempt whose outcome it is (the
\* identity of the error object thrown, or of the value returned)
Returned(v) == [threw |-> FALSE, err |-> NoError, val |-> v, id |-> 0]

Thrown(e) == [threw |-> TRUE, err |-> e, val |-> NoValue, id |-> 0]

\* text.replace(/FENCEjson/g, "").replace(/FENCE/g, "").trim(), FENCE standing
\* for the three backquotes of a Markdown code fence
StripFences(text) == SelectSeq(text, LAMBDA t : t \notin {"FENCEJSON", "FENCE"})

\* JSON.parse on the token sequence: an array of items, a bare object, or a
\* SyntaxError
JsonParse(text) ==
    IF Len(text) >= 2 /\ Head(text) = "[" /\ text[Len(text)] = "]"
          /\ \A i \in 2..(Len(text) - 1) : text[i] \in {"box", "{}"}
    THEN Returned([tag |-> "array", answer |-> <<>>,
                   items |-> SubSeq(text, 2, Len(text) - 1)])
    ELSE IF text = <<"{}">>
    THEN Returned([tag |-> "object", answer |-> <<>>, items |-> <<>>])
    ELSE Thrown(ParseError)

analyzeOperationAnyText(resp) ==
    IF resp.threw THEN Thrown(resp.err)
    ELSE Returned([tag |-> "answer", answer |-> resp.text, items |-> <<>>])

\* the operation analyzeFrameWithQuery hands to retryWithBackoff
analyzeOperation(resp) ==
    IF resp.threw THEN Thrown(resp.err)
    ELSE IF resp.text = <<>> THEN Thrown(NoTextError)
    ELSE Returned([tag |-> "answer", answer |-> resp.text, items |-> <<>>])

detectOperationRejectsNoText(resp) ==
    IF resp.threw THEN Thrown(resp.err)
    ELSE IF resp.text = <<>> THEN Thrown(NoTextError)
    ELSE JsonParse(StripFences(resp.text))

\* the operation detectCharactersInFrame hands to retryWithBackoff
detectOperation(resp) ==
    IF resp.threw THEN Thrown(resp.err)
    ELSE IF resp.text = <<>>
    THEN Returned([tag |-> "array", answer |-> <<>>, items |-> <<>>])
    ELSE JsonParse(StripFences(resp.text))

operation(kind, resp) ==
    IF kind = "analyze" THEN analyzeOperation(resp) ELSE detectOperation(resp)

(***************************************************************************)
(* retryWithBackoff.  A call is one invocation of analyzeFrameWithQuery or *)
(* detectCharactersInFrame; the recursion is in tail position (the outer   *)
(* frames only hand the inner promise on), so a call carries the current   *)
(* frame's retries and delay.  attempts, waits, log and thrown record what *)
(* the call has done so far.                                               *)
(***************************************************************************)
DefaultRetries == 3

DefaultDelay == 2000

\* audioData when null: no audio accompanies the request
NoAudio == [mime |-> "none", data |-> <<>>, chunks |-> <<>>, rate |-> 0]

\* the arguments of a request: base64Image, query and audioData
NoArgs == [image |-> "null", query |-> "", audio |-> NoAudio]

\* before the first attempt has settled there is no response
NoResponse == [threw |-> FALSE, err |-> NoError, text |-> <<>>]

\* resp is the response the service gave to the last attempt
IdleCall ==
    [pc |-> "idle", kind |-> "analyze", retries |-> DefaultRetries,
     delay |-> DefaultDelay, attempts |-> 0, waits |-> <<>>, log |-> <<>>,
     thrown |-> Returned(NoValue), result |-> Returned(NoValue),
     resp |-> NoResponse, args |-> NoArgs]

ShouldRetryOneShort(retries, error) == retries > 1 /\ isRateLimit(error)

ShouldRetryAnyError(retries, error) == retries > 0

ShouldRetryOneMore(retries, error) == retries >= 0 /\ isRateLimit(error)

\* if (retries > 0 && isRateLimit)
ShouldRetry(retries, error) == retries > 0 /\ isRateLimit(error)

NextDelayLinear(delay) == delay + DefaultDelay

\* delay * 2
NextDelay(delay) == delay * 2

\* retryWithBackoff(operation) with the default retries and delay: the
\* operation is invoked at once and awaits the service
StartCall(c, kind, args) ==
    /\ calls[c].pc = "idle"
    /\ calls' = [calls EXCEPT ![c] =
                    [IdleCall EXCEPT !.pc = "awaiting", !.kind = kind,
                                     !.attempts = 1, !.args = args]]

\* the awaited operation settles: return its value, or catch its error and
\* either wait(delay) or rethrow
Settle(call, out) ==
    IF ~out.threw
    THEN [call EXCEPT !.pc = "resolved", !.result = out,
                      !.log = Append(@, "ok")]
    ELSE IF ShouldRetry(call.retries, out.err)
    THEN [call EXCEPT !.pc = "waiting", !.thrown = out,
                      !.waits = Append(@, call.delay),
                      !.log = Append(@, "ratelimit")]
    ELSE [call EXCEPT !.pc = "rejected", !.thrown = out, !.result = out,
                      !.log = Append(@, IF isRateLimit(out.err)
                                        THEN "ratelimit" ELSE "other")]

\* the call once its pending attempt has been answered with resp
AfterResponse(call, resp) ==
    [Settle(call, [operation(call.kind, resp) EXCEPT !.id = call.attempts])
        EXCEPT !.resp = resp]

ServiceResponds(c, resp) ==
    /\ calls[c].pc = "awaiting"
    /\ calls' = [calls EXCEPT ![c] = AfterResponse(@, resp)]

TimerFiresSharedState(c) ==
    /\ calls[c].pc = "waiting"
    /\ calls' = [d \in CallIds |->
                    IF d = c
                    THEN [calls[d] EXCEPT !.pc = "awaiting", !.retries = @ - 1,
                                          !.delay = NextDelay(@), !.attempts = @ + 1]
                    ELSE IF calls[d].pc = "idle" THEN calls[d]
                    ELSE [calls[d] EXCEPT !.retries = @ - 1, !.delay = NextDelay(@)]]

\* the wait(delay) timer fires: retryWithBackoff(operation, retries - 1,
\* delay * 2) invokes the operation again
TimerFires(c) ==
    /\ calls[c].pc = "waiting"
    /\ calls' = [calls EXCEPT ![c] =
                    [@ EXCEPT !.pc = "awaiting", !.retries = @ - 1,
                              !.delay = NextDelay(@), !.attempts = @ + 1]]

\* the caller has taken the settled promise's outcome
Consume(c) ==
    /\ calls[c].pc \in {"resolved", "rejected"}
    /\ calls' = [calls EXCEPT ![c] = IdleCall]

\* retryWithBackoff as the function it is of the outcomes of the
\* operation's successive invocations (outs, at least retries + 1 of them),
\* retries and delay: the number of invocations made, the delays waited and
\* the outcome the returned promise settles with
RECURSIVE retryWithBackoff(_, _, _)
retryWithBackoff(outs, retries, delay) ==
    LET out == Head(outs) IN
    IF ~out.threw
    THEN [attempts |-> 1, waits |-> <<>>, result |-> out]
    ELSE IF ShouldRetry(retries, out.err)
    THEN LET rest == retryWithBackoff(Tail(outs), retries - 1, NextDelay(delay))
         IN [attempts |-> rest.attempts + 1, waits |-> <<delay>> \o rest.waits,
             result |-> rest.result]
    ELSE [attempts |-> 1, waits |-> <<>>, result |-> out]

NoRun == [attempts |-> 0, waits |-> <<>>, result |-> Returned(NoValue)]

NoTrial == [outs |-> <<>>, retries |-> 0, delay |-> 0, run |-> NoRun, done |-> FALSE]

\* one retryWithBackoff call
Run ==
    /\ ~trial.done /\ trial.outs # <<>>
    /\ trial' = [trial EXCEPT
                    !.run = retryWithBackoff(trial.outs, trial.retries, trial.delay),
                    !.done = TRUE]
    /\ snapshot' = "none"
    /\ UNCHANGED <<calls, appVars, playerVars, wav>>

(***************************************************************************)
(* The rolling audio buffer (components/CameraView.tsx).  A chunk is the   *)
(* copy of one onaudioprocess input buffer: seq is its index among the     *)
(* chunks captured since the buffer was last emptied, src the video whose  *)
(* audio it holds ("none": the silence an unmounted element feeds).        *)
(***************************************************************************)
\* samples per chunk; createScriptProcessor(4096, 1, 1) scaled down
ChunkLen == 2

\* chunks captured between two clears of the buffer, in BufferSpec
MaxPushes == 112

\* chunks captured between two clears of the buffer, in Spec
UiPushes == 3

maxChunks == 110

SampleRates == {44100, 48000}

\* the audio track of a video, in quarters of full scale (-8..8 is -2.0..2.0)
TrackSample(src, t) ==
    IF src = "demo" THEN ((t * 3) % 17) - 8 ELSE ((t * 5) % 17) - 8

\* new Float32Array(inputData)
Samples(chunk) ==
    [j \in 1..ChunkLen |->
        IF chunk.src # "none"
        THEN TrackSample(chunk.src, (chunk.seq - 1) * ChunkLen + j)
        ELSE 0]

PushKeepOldest(buffer, chunk) ==
    IF Len(buffer) >= maxChunks THEN buffer ELSE Append(buffer, chunk)

\* audioBufferRef.current.push(chunk); if (length > maxChunks) slice(length - maxChunks)
Push(buffer, chunk) ==
    LET b == Append(buffer, chunk) IN
    IF Len(b) > maxChunks THEN SubSeq(b, Len(b) - maxChunks + 1, Len(b)) ELSE b

\* audioBufferRef.current.reduce((acc, chunk) => acc + chunk.length, 0)
RECURSIVE TotalLength(_)
TotalLength(buffer) ==
    IF buffer = <<>> THEN 0 ELSE Len(Samples(Head(buffer))) + TotalLength(Tail(buffer))

\* result.set(chunk, offset)
TypedArraySet(result, chunk, offset) ==
    SubSeq(result, 1, offset) \o chunk
        \o SubSeq(result, offset + Len(chunk) + 1, Len(result))

\* for (const chunk of audioBufferRef.current) { result.set(chunk, offset); offset += chunk.length }
RECURSIVE SetChunks(_, _, _, _)
SetChunks(result, buffer, i, offset) ==
    IF i > Len(buffer) THEN result
    ELSE LET chunk == Samples(buffer[i]) IN
         SetChunks(TypedArraySet(result, chunk, offset), buffer, i + 1,
                   offset + Len(chunk))

FlattenReversed(buffer) ==
    SetChunks([k \in 1..TotalLength(buffer) |-> 0],
              [i \in 1..Len(buffer) |-> buffer[Len(buffer) + 1 - i]], 1, 0)

\* the flattening of handleSubmit: new Float32Array(totalLength), then the loop
Flatten(buffer) ==
    SetChunks([k \in 1..TotalLength(buffer) |-> 0], buffer, 1, 0)

(***************************************************************************)
(* The WAV encoder (components/CameraView.tsx).  A DataView is the         *)
(* sequence of its bytes, byte offset o being element o + 1.  A sample is  *)
(* an integer number of 1/FullScale units.                                 *)
(***************************************************************************)
\* units per 1.0 of sample value
FullScale == 4

\* longest sample array encodeWAV is applied to on its own
MaxSamples == 3

SampleValues == {-2 * FullScale, -FullScale, -1, 0, 1, FullScale, 2 * FullScale}

WavRates == {8000, 44100, 48000}

\* string.charCodeAt(i) of the four chunk markers
CharCodes(string) ==
    CASE string = "RIFF" -> <<82, 73, 70, 70>>
      [] string = "WAVE" -> <<87, 65, 86, 69>>
      [] string = "fmt " -> <<102, 109, 116, 32>>
      [] string = "data" -> <<100, 97, 116, 97>>

\* the bytes of view from offset on replaced by bytes
SetBytes(view, offset, bytes) ==
    [i \in 1..Len(view) |->
        IF i > offset /\ i <= offset + Len(bytes) THEN bytes[i - offset] ELSE view[i]]

\* writeString: view.setUint8(offset + i, string.charCodeAt(i))
writeString(view, offset, string) == SetBytes(view, offset, CharCodes(string))

\* byte k of value modulo 2^32 in two's complement is floor(value / 256^k) mod 256
\* view.setUint32(offset, value, true)
setUint32(view, offset, value) ==
    SetBytes(view, offset,
             <<value % 256, (value \div 256) % 256,
               (value \div 65536) % 256, (value \div 16777216) % 256>>)

\* view.setUint16(offset, value, true)
setUint16(view, offset, value) ==
    LET v == value % 65536 IN
    SetBytes(view, offset, <<v % 256, v \div 256>>)

\* n / d truncated toward zero, as the integer conversion of setInt16 does
Trunc(n, d) == IF n >= 0 THEN n \div d ELSE -((-n) \div d)

\* view.setInt16(offset, value, true), value being n / d
setInt16(view, offset, n, d) ==
    LET v == Trunc(n, d) % 65536 IN
    SetBytes(view, offset, <<v % 256, v \div 256>>)

ClampNothing(x) == x

\* Math.max(-1, Math.min(1, input[i]))
Clamp(x) == IF x > FullScale THEN FullScale ELSE IF x < -FullScale THEN -FullScale ELSE x

\* floatTo16BitPCM: for (i = 0; i < input.length; i++, offset += 2)
RECURSIVE floatTo16BitPCM(_, _, _, _)
floatTo16BitPCM(output, offset, input, i) ==
    IF i > Len(input) THEN output
    ELSE LET x == Clamp(input[i]) IN
         floatTo16BitPCM(
             setInt16(output, offset,
                      IF x < 0 THEN x * 32768 ELSE x * 32767, FullScale),
             offset + 2, input, i + 1)

encodeWAVDataLengthInSamples(samples, sampleRate) ==
    LET b0  == [i \in 1..(44 + Len(samples) * 2) |-> 0]
        b1  == writeString(b0, 0, "RIFF")
        b2  == setUint32(b1, 4, 36 + Len(samples) * 2)
        b3  == writeString(b2, 8, "WAVE")
        b4  == writeString(b3, 12, "fmt ")
        b5  == setUint32(b4, 16, 16)
        b6  == setUint16(b5, 20, 1)
        b7  == setUint16(b6, 22, 1)
        b8  == setUint32(b7, 24, sampleRate)
        b9  == setUint32(b8, 28, sampleRate * 2)
        b10 == setUint16(b9, 32, 2)
        b11 == setUint16(b10, 34, 16)
        b12 == writeString(b11, 36, "data")
        b13 == setUint32(b12, 40, Len(samples))
    IN floatTo16BitPCM(b13, 44, samples, 1)

\* encodeWAV
encodeWAV(samples, sampleRate) ==
    LET b0  == [i \in 1..(44 + Len(samples) * 2) |-> 0]
        b1  == writeString(b0, 0, "RIFF")
        b2  == setUint32(b1, 4, 36 + Len(samples) * 2)
        b3  == writeString(b2, 8, "WAVE")
        b4  == writeString(b3, 12, "fmt ")
        b5  == setUint32(b4, 16, 16)
        b6  == setUint16(b5, 20, 1)
        b7  == setUint16(b6, 22, 1)
        b8  == setUint32(b7, 24, sampleRate)
        b9  == setUint32(b8, 28, sampleRate * 2)
        b10 == setUint16(b9, 32, 2)
        b11 == setUint16(b10, 34, 16)
        b12 == writeString(b11, 36, "data")
        b13 == setUint32(b12, 40, Len(samples) * 2)
    IN floatTo16BitPCM(b13, 44, samples, 1)

NoWav == [samples |-> <<>>, rate |-> 0, bytes |-> <<>>, done |-> FALSE]

\* sequences over S of length at most n
SeqsUpTo(S, n) == UNION { [1..m -> S] : m \in 0..n }

\* one encodeWAV call
Encode ==
    /\ ~wav.done
    /\ wav' = [wav EXCEPT !.bytes = encodeWAV(wav.samples, wav.rate), !.done = TRUE]
    /\ snapshot' = "none"
    /\ UNCHANGED <<calls, appVars, playerVars, trial>>

(***************************************************************************)
(* VideoPlayer (components/CameraView.tsx) and App (App.tsx).  A handler   *)
(* is one action, the re-render and the effects it triggers included.      *)
(***************************************************************************)
NullCtx == [state |-> "null", rate |-> 0, processor |-> FALSE]

\* flat is the local result, wavBuffer the ArrayBuffer wrapped in the blob;
\* chunks is audioBufferRef.current as the flattening found it
NoSubmit ==
    [active |-> FALSE, dataUrl |-> "null", query |-> "", flat |-> <<>>, rate |-> 0,
     wavBuffer |-> <<>>, chunks |-> <<>>]

\* the files the user may pick, with the object URL created for each
Files == { [url |-> "blob:clip", type |-> "video"],
           [url |-> "blob:photo", type |-> "image"] }

DemoUrl == "demo"

Queries == {"", " ", "who is this"}

\* query.trim()
Trim(q) == IF q = " " THEN "" ELSE q

\* videoRef.current is set while the <video> element is rendered
VideoMounted == mediaSrc # "none" /\ mediaType = "video"

isAnalyzing == appState = "ANALYZING"

\* annotations && annotations.length > 0
showAnnotations == boundingBoxes.tag = "array" /\ Len(boundingBoxes.items) > 0

isBusy == isAnalyzing \/ localProcessing

KeepLocalProcessing(newAppState, lp) == lp

\* useEffect(() => { if (!isAnalyzing) setLocalProcessing(false) }, [isAnalyzing])
SyncLocalProcessing(newAppState, lp) ==
    IF appState = "ANALYZING" /\ newAppState # "ANALYZING" THEN FALSE ELSE lp

\* useEffect(() => { if (!isAnalyzing && isQueryDrawerOpen) setIsQueryDrawerOpen(false) }, [isAnalyzing])
SyncDrawer(newAppState, open) ==
    IF appState = "ANALYZING" /\ newAppState # "ANALYZING" THEN FALSE ELSE open

\* msg = err?.message || JSON.stringify(err), then the includes() tests
getFriendlyErrorMessage(err) ==
    LET msg == IF err.hasMsg THEN err.msg
               ELSE (IF err.status = 429 \/ err.code = "n429" THEN {"429"} ELSE {})
                    \cup (IF err.code = "sRESOURCE_EXHAUSTED"
                          THEN {"RESOURCE_EXHAUSTED"} ELSE {})
    IN IF msg # {} THEN "HighTraffic" ELSE "Failed"

\* App.closeAnnotations, the onCloseAnnotations prop
closeAnnotations ==
    /\ boundingBoxes' = NoValue
    /\ appState' = "PLAYING"

\* the call slot a new request takes
FreeCall == IF calls[1].pc = "idle" THEN 1 ELSE 2

\* App.handleAnalyze up to its await
handleAnalyze(imageData, q, audioData) ==
    /\ appState' = "ANALYZING"
    /\ errorMsg' = "none"
    /\ boundingBoxes' = NoValue
    /\ UNCHANGED analysisResult
    /\ StartCall(FreeCall, "analyze",
                 [image |-> imageData, query |-> q, audio |-> audioData])

\* App.handleIdentify up to its await
handleIdentify(imageData) ==
    /\ appState' = "ANALYZING"
    /\ errorMsg' = "none"
    /\ analysisResult' = NoValue
    /\ boundingBoxes' = NoValue
    /\ StartCall(FreeCall, "detect",
                 [image |-> imageData, query |-> "", audio |-> NoAudio])

\* the cleanup returned by the audio effect's last run, then the effect's
\* body for the new mediaSrc / mediaType; buffer is audioBufferRef.current
\* as the handler left it
RunAudioEffect(newSrc, newType, buffer, cleared) ==
    /\ audioCtx' = IF cleanup = "close" /\ audioCtx.state \in {"running", "suspended"}
                   THEN [audioCtx EXCEPT !.state = "closed"] ELSE audioCtx
    /\ audioBuffer' = IF cleanup = "close" THEN <<>> ELSE buffer
    /\ captured' = IF cleanup = "close" \/ cleared THEN 0 ELSE captured
    /\ IF newType = "video" /\ newSrc # "none"
       THEN timerPending' = TRUE /\ cleanup' = "timer"
       ELSE /\ timerPending' = (IF cleanup = "timer" THEN FALSE ELSE timerPending)
            /\ cleanup' = "close"

\* handleFileUpload and handleLoadDemo
LoadMedia(url, type) ==
    /\ mediaSrc = "none"
    /\ mediaSrc' = url
    /\ mediaType' = type
    /\ query' = ""
    /\ isQueryDrawerOpen' = FALSE
    /\ closeAnnotations
    /\ RunAudioEffect(url, type, <<>>, TRUE)
    /\ bufferAtPause' = <<>>
    /\ isPaused' = (type = "image")
    /\ videoPaused' = TRUE
    /\ localProcessing' = SyncLocalProcessing("PLAYING", localProcessing)
    /\ UNCHANGED <<calls, analysisResult, errorMsg, pendingSubmit>>
    /\ snapshot' = "none"
    /\ UNCHANGED <<wav, trial>>

handleFileUpload == \E file \in Files : LoadMedia(file.url, file.type)

handleLoadDemo == LoadMedia(DemoUrl, "video")

\* the Change Media button
ChangeMedia ==
    /\ mediaSrc # "none"
    /\ mediaSrc' = "none"
    /\ query' = ""
    /\ mediaType' = "none"
    /\ closeAnnotations
    /\ isQueryDrawerOpen' = FALSE
    /\ RunAudioEffect("none", "none", audioBuffer, FALSE)
    /\ bufferAtPause' = <<>>
    /\ videoPaused' = TRUE
    /\ localProcessing' = SyncLocalProcessing("PLAYING", localProcessing)
    /\ UNCHANGED <<calls, analysisResult, errorMsg, pendingSubmit, isPaused>>
    /\ snapshot' = "none"
    /\ UNCHANGED <<wav, trial>>

\* the setTimeout callback of the audio effect; setup tells how far the
\* construction gets before it throws
AudioSetup ==
    /\ timerPending
    /\ timerPending' = FALSE
    /\ \E setup \in {"ok", "nosource", "noctx"}, rate \in SampleRates,
          st \in {"running", "suspended"} :
          audioCtx' = IF ~VideoMounted \/ setup = "noctx" THEN audioCtx
                      ELSE [state |-> st, rate |-> rate,
                            processor |-> (setup = "ok")]
    /\ UNCHANGED <<calls, appVars, mediaVars, formVars, cleanup, audioBuffer, captured,
                   bufferAtPause>>
    /\ snapshot' = "none"
    /\ UNCHANGED <<wav, trial>>

\* if (!videoRef.current?.paused)
CapturesAlways == TRUE

Capturing == ~(VideoMounted /\ videoPaused)

\* processor.onaudioprocess
onaudioprocess(limit) ==
    /\ audioCtx.state = "running"
    /\ audioCtx.processor
    /\ IF Capturing
       THEN /\ captured < limit
            /\ audioBuffer' = Push(audioBuffer,
                                   [seq |-> captured + 1,
                                    src |-> IF VideoMounted THEN mediaSrc
                                            ELSE "none"])
            /\ captured' = captured + 1
       ELSE UNCHANGED <<audioBuffer, captured>>
    /\ UNCHANGED <<calls, appVars, mediaVars, formVars, audioCtx, timerPending, cleanup,
                   bufferAtPause>>
    /\ snapshot' = "none"
    /\ UNCHANGED <<wav, trial>>

\* the <video> element's play event
handleVideoPlay ==
    /\ VideoMounted /\ videoPaused
    /\ ~showAnnotations /\ ~isQueryDrawerOpen
    /\ videoPaused' = FALSE
    /\ isPaused' = FALSE
    /\ closeAnnotations
    /\ isQueryDrawerOpen' = FALSE
    /\ audioCtx' = IF audioCtx.state = "suspended"
                   THEN [audioCtx EXCEPT !.state = "running"] ELSE audioCtx
    /\ localProcessing' = SyncLocalProcessing("PLAYING", localProcessing)
    /\ bufferAtPause' = <<>>
    /\ UNCHANGED <<calls, analysisResult, errorMsg, mediaSrc, mediaType, query,
                   pendingSubmit, timerPending, cleanup, audioBuffer, captured>>
    /\ snapshot' = "none"
    /\ UNCHANGED <<wav, trial>>

\* the <video> element's pause event
handleVideoPause ==
    /\ VideoMounted /\ ~videoPaused
    /\ videoPaused' = TRUE
    /\ \E seeking \in BOOLEAN : isPaused' = (IF seeking THEN isPaused ELSE TRUE)
    /\ bufferAtPause' = audioBuffer
    /\ UNCHANGED <<calls, appVars, mediaSrc, mediaType, formVars, audioCtx,
                   timerPending, cleanup, audioBuffer, captured>>
    /\ snapshot' = "none"
    /\ UNCHANGED <<wav, trial>>

\* the Ask AI button
OpenDrawer ==
    /\ mediaSrc # "none" /\ isPaused /\ ~showAnnotations /\ ~isQueryDrawerOpen
    /\ ~isBusy
    /\ isQueryDrawerOpen' = TRUE
    /\ UNCHANGED <<calls, appVars, mediaVars, audioVars, query, localProcessing,
                   pendingSubmit>>
    /\ snapshot' = "none"
    /\ UNCHANGED <<wav, trial>>

\* the drawer's close button, or a swipe
CloseDrawer ==
    /\ isQueryDrawerOpen
    /\ isQueryDrawerOpen' = FALSE
    /\ UNCHANGED <<calls, appVars, mediaVars, audioVars, query, localProcessing,
                   pendingSubmit>>
    /\ snapshot' = "none"
    /\ UNCHANGED <<wav, trial>>

\* typing or dictating into the textarea
SetQuery ==
    /\ isQueryDrawerOpen
    /\ \E q \in Queries \ {query} : query' = q
    /\ UNCHANGED <<calls, appVars, mediaVars, audioVars, isQueryDrawerOpen,
                   localProcessing, pendingSubmit>>
    /\ snapshot' = "none"
    /\ UNCHANGED <<wav, trial>>

\* getSnapshot: the frame's data URL, or null
getSnapshot(canvasOk) ==
    IF canvasOk /\ mediaSrc # "none" /\ mediaType \in {"video", "image"}
    THEN mediaSrc ELSE "null"

\* the base64 digits (0..63, and 64 for the padding "=") of a byte sequence
Base64(bytes) ==
    LET n == Len(bytes)
        byte(i) == IF i <= n THEN bytes[i] ELSE 0
    IN [k \in 1..(4 * ((n + 2) \div 3)) |->
          LET g  == (k - 1) \div 4
              j  == (k - 1) % 4
              b1 == byte(3 * g + 1)
              b2 == byte(3 * g + 2)
              b3 == byte(3 * g + 3)
          IN CASE j = 0 -> b1 \div 4
               [] j = 1 -> (b1 % 4) * 16 + (b2 \div 16)
               [] j = 2 -> IF 3 * g + 2 > n THEN 64 ELSE (b2 % 16) * 4 + (b3 \div 64)
               [] j = 3 -> IF 3 * g + 3 > n THEN 64 ELSE b3 % 64]

blobToBase64Live(blob) ==
    [mime |-> "audio/wav",
     data |-> Base64(encodeWAV(Flatten(audioBuffer), blob.rate)),
     chunks |-> blob.chunks, rate |-> blob.rate]

\* blobToBase64: the data URL FileReader.readAsDataURL produces for the
\* blob; chunks and rate tell what the blob was made from
blobToBase64(blob) ==
    [mime |-> "audio/wav", data |-> Base64(blob.wavBuffer),
     chunks |-> blob.chunks, rate |-> blob.rate]

\* audioData.replace(/^data:audio\/\w+;base64,/, ""): the inlineData sent
cleanBase64Audio(audioData) == audioData.data

partsAudioLast(base64Image, q, audioData) ==
    <<[kind |-> "inlineData", mimeType |-> "image/jpeg", image |-> base64Image,
       audio |-> <<>>, query |-> "", mentionsAudio |-> FALSE]>>
    \o <<[kind |-> "text", mimeType |-> "none", image |-> "none", audio |-> <<>>,
          query |-> q, mentionsAudio |-> audioData # NoAudio]>>
    \o (IF audioData # NoAudio
        THEN <<[kind |-> "inlineData", mimeType |-> "audio/wav", image |-> "none",
                audio |-> cleanBase64Audio(audioData), query |-> "",
                mentionsAudio |-> FALSE]>>
        ELSE <<>>)

\* the parts analyzeFrameWithQuery builds for generateContent: the frame,
\* the audio clip if (audioData), and the text with the query and the
\* instructions, which mention the clip when there is one
parts(base64Image, q, audioData) ==
    <<[kind |-> "inlineData", mimeType |-> "image/jpeg", image |-> base64Image,
       audio |-> <<>>, query |-> "", mentionsAudio |-> FALSE]>>
    \o (IF audioData # NoAudio
        THEN <<[kind |-> "inlineData", mimeType |-> "audio/wav", image |-> "none",
                audio |-> cleanBase64Audio(audioData), query |-> "",
                mentionsAudio |-> FALSE]>>
        ELSE <<>>)
    \o <<[kind |-> "text", mimeType |-> "none", image |-> "none", audio |-> <<>>,
          query |-> q, mentionsAudio |-> audioData # NoAudio]>>

HasSnapshotAlways(dataUrl) == TRUE

\* if (dataUrl)
HasSnapshot(dataUrl) == dataUrl # "null"

\* handleSubmit (form submit, or Enter in the textarea) up to its await, or
\* to its end when no audio is captured
handleSubmit ==
    /\ isQueryDrawerOpen
    /\ Trim(query) # ""
    /\ \E canvasOk \in BOOLEAN :
         LET dataUrl == getSnapshot(canvasOk) IN
         /\ snapshot' = dataUrl
         /\ IF mediaType = "video" /\ Len(audioBuffer) > 0 /\ audioCtx.state # "null"
            THEN /\ ~pendingSubmit.active
                 /\ pendingSubmit' =
                       [active |-> TRUE, dataUrl |-> dataUrl, query |-> query,
                        flat |-> Flatten(audioBuffer), rate |-> audioCtx.rate,
                        wavBuffer |-> encodeWAV(Flatten(audioBuffer), audioCtx.rate),
                        chunks |-> audioBuffer]
                 /\ localProcessing' = TRUE
                 /\ UNCHANGED <<calls, appVars>>
            ELSE IF HasSnapshot(dataUrl)
            THEN /\ calls[FreeCall].pc = "idle"
                 /\ handleAnalyze(dataUrl, query, NoAudio)
                 /\ localProcessing' = TRUE
                 /\ UNCHANGED pendingSubmit
            ELSE /\ localProcessing' = FALSE
                 /\ UNCHANGED <<calls, appVars, pendingSubmit>>
    /\ UNCHANGED <<mediaVars, audioVars, query, isQueryDrawerOpen>>
    /\ UNCHANGED <<wav, trial>>

\* handleSubmit from the settling of blobToBase64 on; a conversion that
\* fails leaves audioBase64 null
SubmitResume ==
    /\ pendingSubmit.active
    /\ pendingSubmit' = NoSubmit
    /\ \E converted \in BOOLEAN :
         LET audioBase64 == IF converted THEN blobToBase64(pendingSubmit)
                            ELSE NoAudio
         IN IF HasSnapshot(pendingSubmit.dataUrl)
            THEN /\ calls[FreeCall].pc = "idle"
                 /\ handleAnalyze(pendingSubmit.dataUrl, pendingSubmit.query,
                                  audioBase64)
                 /\ UNCHANGED localProcessing
            ELSE /\ localProcessing' = FALSE
                 /\ UNCHANGED <<calls, appVars>>
    /\ UNCHANGED <<mediaVars, audioVars, query, isQueryDrawerOpen>>
    /\ snapshot' = "none"
    /\ UNCHANGED <<wav, trial>>

\* handleIdentifyClick
handleIdentifyClick ==
    /\ mediaSrc # "none" /\ isPaused /\ ~showAnnotations /\ ~isQueryDrawerOpen
    /\ ~(localProcessing \/ isAnalyzing)
    /\ \E canvasOk \in BOOLEAN :
         LET dataUrl == getSnapshot(canvasOk) IN
         /\ snapshot' = dataUrl
         /\ IF HasSnapshot(dataUrl)
            THEN /\ calls[FreeCall].pc = "idle"
                 /\ handleIdentify(dataUrl)
                 /\ localProcessing' = TRUE
            ELSE /\ localProcessing' = FALSE
                 /\ UNCHANGED <<calls, appVars>>
    /\ UNCHANGED <<mediaVars, audioVars, query, isQueryDrawerOpen, pendingSubmit>>
    /\ UNCHANGED <<wav, trial>>

\* App.handleAnalyze / App.handleIdentify after the await, the awaited call
\* having settled as k
Resume(k) ==
    LET next ==
          IF k.pc = "rejected"
          THEN [app |-> "ERROR", msg |-> getFriendlyErrorMessage(k.result.err),
                res |-> analysisResult, boxes |-> IF k.kind = "detect" THEN NoValue
                                                  ELSE boundingBoxes]
          ELSE IF k.kind = "analyze"
          THEN [app |-> "RESULT", msg |-> errorMsg, res |-> k.result.val,
                boxes |-> boundingBoxes]
          ELSE IF k.result.val.tag = "array" /\ Len(k.result.val.items) = 0
          THEN [app |-> "ERROR", msg |-> "NoCharacters", res |-> analysisResult,
                boxes |-> NoValue]
          ELSE [app |-> "PLAYING", msg |-> errorMsg, res |-> analysisResult,
                boxes |-> k.result.val]
    IN /\ appState' = next.app
       /\ errorMsg' = next.msg
       /\ analysisResult' = next.res
       /\ boundingBoxes' = next.boxes
       /\ localProcessing' = SyncLocalProcessing(next.app, localProcessing)
       /\ isQueryDrawerOpen' = SyncDrawer(next.app, isQueryDrawerOpen)

\* a settled call's outcome reaches App.handleAnalyze / App.handleIdentify
RequestDone(c) ==
    /\ calls[c].pc \in {"resolved", "rejected"}
    /\ Consume(c)
    /\ Resume(calls[c])
    /\ UNCHANGED <<mediaVars, audioVars, query, pendingSubmit>>
    /\ snapshot' = "none"
    /\ UNCHANGED <<wav, trial>>

\* the service answers the pending attempt of call c: the attempt's
\* continuation runs, in the same task, either to wait(delay) or through
\* retryWithBackoff's return into the awaiting App handler
ServiceAnswers(c, resp) ==
    /\ calls[c].pc = "awaiting"
    /\ LET k == AfterResponse(calls[c], resp) IN
       IF k.pc = "waiting"
       THEN /\ calls' = [calls EXCEPT ![c] = k]
            /\ UNCHANGED <<appVars, localProcessing, isQueryDrawerOpen>>
       ELSE /\ calls' = [calls EXCEPT ![c] = IdleCall]
            /\ Resume(k)
    /\ UNCHANGED <<mediaVars, audioVars, query, pendingSubmit>>
    /\ snapshot' = "none"
    /\ UNCHANGED <<wav, trial>>

\* App.closeResult, the ResultCard's onClose
closeResult ==
    /\ appState = "RESULT" /\ analysisResult # NoValue
    /\ appState' = "PLAYING"
    /\ analysisResult' = NoValue
    /\ errorMsg' = "none"
    /\ UNCHANGED <<calls, boundingBoxes, playerVars>>
    /\ snapshot' = "none"
    /\ UNCHANGED <<wav, trial>>

\* the error toast's dismiss button
DismissError ==
    /\ appState = "ERROR"
    /\ appState' = "PLAYING"
    /\ UNCHANGED <<calls, analysisResult, boundingBoxes, errorMsg, playerVars>>
    /\ snapshot' = "none"
    /\ UNCHANGED <<wav, trial>>

\* the Close Annotations button
CloseAnnotationsClick ==
    /\ mediaSrc # "none" /\ showAnnotations
    /\ closeAnnotations
    /\ localProcessing' = SyncLocalProcessing("PLAYING", localProcessing)
    /\ isQueryDrawerOpen' = SyncDrawer("PLAYING", isQueryDrawerOpen)
    /\ UNCHANGED <<calls, analysisResult, errorMsg, mediaVars, audioVars, query,
                   pendingSubmit>>
    /\ snapshot' = "none"
    /\ UNCHANGED <<wav, trial>>

\* the state after the components have mounted
UiInit ==
    /\ appState = "UPLOAD"
    /\ analysisResult = NoValue
    /\ boundingBoxes = NoValue
    /\ errorMsg = "none"
    /\ mediaSrc = "none"
    /\ mediaType = "none"
    /\ isPaused = FALSE
    /\ videoPaused = TRUE
    /\ query = ""
    /\ isQueryDrawerOpen = FALSE
    /\ localProcessing = FALSE
    /\ pendingSubmit = NoSubmit
    /\ snapshot = "none"
    /\ audioCtx = NullCtx
    /\ timerPending = FALSE
    /\ cleanup = "close"
    /\ audioBuffer = <<>>
    /\ captured = 0
    /\ bufferAtPause = <<>>

(***************************************************************************)
(* BufferSpec: the media and audio-capture lifecycle of the player, over   *)
(* MaxPushes captured chunks.  The handlers left out write none of the     *)
(* media and audio variables, and the guards they could falsify (an open   *)
(* drawer or shown annotations hide the play controls) only disable steps. *)
(***************************************************************************)
AppInit ==
    /\ UiInit
    /\ calls = [c \in CallIds |-> IdleCall]
    /\ wav = NoWav
    /\ trial = NoTrial

BufferNext ==
    \/ handleFileUpload
    \/ handleLoadDemo
    \/ ChangeMedia
    \/ AudioSetup
    \/ onaudioprocess(MaxPushes)
    \/ handleVideoPlay
    \/ handleVideoPause

BufferSpec == AppInit /\ [][BufferNext]_vars

(***************************************************************************)
(* PlayerSpec: the VideoPlayer component with its query drawer, over       *)
(* UiPushes captured chunks; the user's media are the files of Files (the  *)
(* demo video goes through the same LoadMedia in BufferSpec), and the      *)
(* requests handed to onAnalyze stay unanswered.                           *)
(***************************************************************************)
PlayerNext ==
    \/ handleFileUpload
    \/ ChangeMedia
    \/ AudioSetup
    \/ onaudioprocess(UiPushes)
    \/ handleVideoPlay
    \/ handleVideoPause
    \/ OpenDrawer
    \/ CloseDrawer
    \/ SetQuery
    \/ handleSubmit
    \/ SubmitResume

PlayerSpec == AppInit /\ [][PlayerNext]_vars

(***************************************************************************)
(* Spec: the whole application.  The audio graph, when the video is still  *)
(* mounted as the setup timer fires, is built whole and running at 44100   *)
(* Hz; at most AppPushes chunks are captured between two clears; the       *)
(* user's media are the files of Files; the service answers from a few     *)
(* representative responses, none of them rate-limited.                    *)
(***************************************************************************)
\* chunks captured between two clears of the buffer, in Spec
AppPushes == 1

\* the service fails for good, or answers without a text, or answers an
\* ask with prose and an identification with a JSON array or a bare object
UiResponses(kind) ==
    { [threw |-> TRUE, text |-> <<>>,
       err |-> [what |-> "service", hasMsg |-> TRUE, msg |-> {}, status |-> 0,
                code |-> "none"]] }
    \cup
    { [threw |-> FALSE, err |-> NoError, text |-> t] :
        t \in CASE kind = "analyze" -> {<<>>, <<"answer">>}
                 [] kind = "detect"  -> {<<>>, <<"[", "]">>, <<"[", "box", "]">>,
                                         <<"{}">>}
                 [] OTHER            -> {} }

ServiceStep ==
    \E c \in CallIds : \E resp \in UiResponses(calls[c].kind) : ServiceAnswers(c, resp)

BackoffStep ==
    /\ \E c \in CallIds : TimerFires(c)
    /\ UNCHANGED <<appVars, playerVars>>
    /\ snapshot' = "none"
    /\ UNCHANGED <<wav, trial>>

\* the setTimeout callback of the audio effect, the graph built whole
AudioReady ==
    /\ AudioSetup
    /\ VideoMounted =>
          audioCtx' = [state |-> "running", rate |-> 44100, processor |-> TRUE]

Next ==
    \/ handleFileUpload
    \/ ChangeMedia
    \/ AudioReady
    \/ onaudioprocess(AppPushes)
    \/ handleVideoPlay
    \/ handleVideoPause
    \/ OpenDrawer
    \/ CloseDrawer
    \/ SetQuery
    \/ handleSubmit
    \/ SubmitResume
    \/ handleIdentifyClick
    \/ ServiceStep
    \/ closeResult
    \/ DismissError
    \/ CloseAnnotationsClick

Spec == AppInit /\ [][Next]_vars

(***************************************************************************)
(* FairSpec: the application with every outstanding request answered in    *)
(* the end (its attempts and timers all complete: EveryCallSettles) and    *)
(* every audio conversion settling; the user is under no obligation.       *)
(***************************************************************************)
FairSpec ==
    /\ Spec
    /\ \A c \in CallIds :
          WF_vars(\E resp \in UiResponses(calls[c].kind) : ServiceAnswers(c, resp))
    /\ WF_vars(SubmitResume)

(***************************************************************************)
(* RetrySpec: the request layer called directly.                           *)
(***************************************************************************)
\* the calls the request layer is driven with directly
RetryCalls == {1}

\* the arguments the request layer is driven with directly
RetryArgs == [image |-> "frame", query |-> "who is this", audio |-> NoAudio]

RetryInit == AppInit

InvokeAnalyze ==
    /\ \E c \in RetryCalls : StartCall(c, "analyze", RetryArgs)
    /\ UNCHANGED <<appVars, playerVars>>
    /\ snapshot' = "none"
    /\ UNCHANGED <<wav, trial>>

InvokeDetect ==
    /\ \E c \in RetryCalls : StartCall(c, "detect", RetryArgs)
    /\ UNCHANGED <<appVars, playerVars>>
    /\ snapshot' = "none"
    /\ UNCHANGED <<wav, trial>>

Respond ==
    /\ \E c \in RetryCalls, resp \in ServiceResponses : ServiceResponds(c, resp)
    /\ UNCHANGED <<appVars, playerVars>>
    /\ snapshot' = "none"
    /\ UNCHANGED <<wav, trial>>

Timer ==
    /\ \E c \in RetryCalls : TimerFires(c)
    /\ UNCHANGED <<appVars, playerVars>>
    /\ snapshot' = "none"
    /\ UNCHANGED <<wav, trial>>

Take ==
    /\ \E c \in RetryCalls : Consume(c)
    /\ UNCHANGED <<appVars, playerVars>>
    /\ snapshot' = "none"
    /\ UNCHANGED <<wav, trial>>

RetryNext == InvokeAnalyze \/ InvokeDetect \/ Respond \/ Timer \/ Take

RetrySpec == RetryInit /\ [][RetryNext]_vars

\* every service attempt settles and every backoff timer fires
FairRetrySpec ==
    /\ RetrySpec
    /\ \A c \in RetryCalls :
          /\ WF_vars(\E resp \in ServiceResponses :
                        ServiceResponds(c, resp) /\ snapshot' = "none" /\ UNCHANGED <<appVars, playerVars, wav, trial>>)
          /\ WF_vars(TimerFires(c) /\ snapshot' = "none" /\ UNCHANGED <<appVars, playerVars, wav, trial>>)

(***************************************************************************)
(* ConcurrentSpec: the request layer driven with two calls side by side,   *)
(* each attempt answered with a rate-limit error, another error, or a      *)
(* text.                                                                   *)
(***************************************************************************)
ConcurrentResponses ==
    { [threw |-> TRUE, text |-> <<>>,
       err |-> [what |-> "service", hasMsg |-> TRUE, msg |-> {}, status |-> st,
                code |-> "none"]] : st \in {429, 503} }
    \cup
    { [threw |-> FALSE, err |-> NoError, text |-> <<"answer">>] }

ConcurrentInvoke ==
    /\ \E c \in CallIds, kind \in {"analyze", "detect"} : StartCall(c, kind, RetryArgs)
    /\ UNCHANGED <<appVars, playerVars>>
    /\ snapshot' = "none"
    /\ UNCHANGED <<wav, trial>>

ConcurrentRespond ==
    /\ \E c \in CallIds, resp \in ConcurrentResponses : ServiceResponds(c, resp)
    /\ UNCHANGED <<appVars, playerVars>>
    /\ snapshot' = "none"
    /\ UNCHANGED <<wav, trial>>

ConcurrentTimer ==
    /\ \E c \in CallIds : TimerFires(c)
    /\ UNCHANGED <<appVars, playerVars>>
    /\ snapshot' = "none"
    /\ UNCHANGED <<wav, trial>>

ConcurrentTake ==
    /\ \E c \in CallIds : Consume(c)
    /\ UNCHANGED <<appVars, playerVars>>
    /\ snapshot' = "none"
    /\ UNCHANGED <<wav, trial>>

ConcurrentNext ==
    ConcurrentInvoke \/ ConcurrentRespond \/ ConcurrentTimer \/ ConcurrentTake

ConcurrentSpec == AppInit /\ [][ConcurrentNext]_vars

(***************************************************************************)
(* TrialSpec: retryWithBackoff applied to every sequence of outcomes       *)
(* (a value, a rate-limit error or another error per invocation) with      *)
(* every budget up to MaxBudget.                                           *)
(***************************************************************************)
MaxBudget == 4

TrialDelays == {1000, DefaultDelay}

\* what the i-th invocation of the operation settles with: a value, a
\* rate-limit error or another error
TrialOutcome(i, class) ==
    CASE class = "ok" ->
            [Returned([tag |-> "answer", answer |-> <<"answer">>, items |-> <<>>])
                EXCEPT !.id = i]
      [] class = "ratelimit" ->
            [Thrown([what |-> "service", hasMsg |-> TRUE, msg |-> {},
                     status |-> 429, code |-> "none"]) EXCEPT !.id = i]
      [] OTHER ->
            [Thrown([what |-> "service", hasMsg |-> TRUE, msg |-> {},
                     status |-> 503, code |-> "none"]) EXCEPT !.id = i]

TrialInit ==
    /\ UiInit
    /\ calls = [c \in CallIds |-> IdleCall]
    /\ wav = NoWav
    /\ \E retries \in 0..MaxBudget, delay \in TrialDelays :
       \E classes \in [1..(retries + 1) -> {"ok", "ratelimit", "other"}] :
          trial = [outs |-> [i \in 1..(retries + 1) |-> TrialOutcome(i, classes[i])],
                   retries |-> retries, delay |-> delay,
                   run |-> NoRun, done |-> FALSE]

TrialSpec == TrialInit /\ [][Run]_vars

(***************************************************************************)
(* WavSpec: encodeWAV applied to every sample array of up to MaxSamples    *)
(* values at every rate of WavRates.                                       *)
(***************************************************************************)
WavInit ==
    /\ UiInit
    /\ calls = [c \in CallIds |-> IdleCall]
    /\ \E samples \in SeqsUpTo(SampleValues, MaxSamples), rate \in WavRates :
          wav = [samples |-> samples, rate |-> rate, bytes |-> <<>>, done |-> FALSE]
    /\ trial = NoTrial

WavSpec == WavInit /\ [][Encode]_vars

(***************************************************************************)
(* Properties of the retry policy.                                         *)
(***************************************************************************)
RECURSIVE SumSeq(_)
SumSeq(s) == IF s = <<>> THEN 0 ELSE Head(s) + SumSeq(Tail(s))

Pow2(n) == IF n = 0 THEN 1 ELSE IF n = 1 THEN 2 ELSE IF n = 2 THEN 4
           ELSE IF n = 3 THEN 8 ELSE 16

\* the delay waited before the i-th retry
Backoff(i) == 2000 * Pow2(i - 1)

Settled(k) == k.pc \in {"resolved", "rejected"}

InFlight(k) == k.pc \in {"awaiting", "waiting"}

AllRateLimited(k) == \A i \in DOMAIN k.log : k.log[i] = "ratelimit"

\* the specification's notion of a transient error: status 429, or message or code
\* containing "429", "quota" or "RESOURCE_EXHAUSTED"
SpecTransient(e) ==
    \/ e.status = 429
    \/ (e.hasMsg /\ e.msg # {})
    \/ e.code # "none"

\* C1: a call whose operation failed with a rate-limit error on every
\* attempt settles exactly when the operation has been invoked 4 times, and
\* it then rejects with the very error the 4th attempt threw.
RetryExhaustion ==
    \A c \in CallIds :
       LET k == calls[c] IN
       AllRateLimited(k) =>
          /\ k.attempts <= 4
          /\ Settled(k) <=> Len(k.log) = 4
          /\ Settled(k) =>
                /\ k.pc = "rejected"
                /\ k.attempts = 4
                /\ k.result = k.thrown
                /\ k.result.id = 4

RetryExhaustionWitness ==
    \E c \in CallIds :
       /\ calls[c].pc = "rejected"
       /\ calls[c].log = <<"ratelimit", "ratelimit", "ratelimit", "ratelimit">>
       /\ calls[c].result.err.status = 429

\* C2: a call that resolves after k rate-limited attempts (k in 0..3)
\* resolves with the value of attempt k+1, having waited exactly
\* 2000, 4000, ... before the retries, 2000 * (2^k - 1) ms in total.
RetrySuccessAfterTransient ==
    \A c \in CallIds :
       LET k == calls[c]
           n == k.attempts - 1
       IN  k.pc = "resolved" =>
              /\ n \in 0..3
              /\ k.log = [i \in 1..(n + 1) |->
                            IF i <= n THEN "ratelimit" ELSE "ok"]
              /\ ~k.result.threw
              /\ k.result.id = n + 1
              /\ k.waits = [i \in 1..n |-> Backoff(i)]
              /\ SumSeq(k.waits) = 2000 * (Pow2(n) - 1)

RetrySuccessWitness ==
    \E c \in CallIds :
       /\ calls[c].pc = "resolved"
       /\ calls[c].attempts = 4
       /\ calls[c].waits = <<2000, 4000, 8000>>

RetriesExactlyTransientErrors ==
    \A c \in CallIds :
       LET k == calls[c] IN
       (k.thrown.threw /\ k.thrown.id = k.attempts /\ k.pc # "awaiting") =>
          (k.pc = "waiting" <=> (SpecTransient(k.thrown.err) /\ k.retries > 0))

\* C5: every call in flight eventually settles, having made at most 4
\* attempts and waited at most 2000 + 4000 + 8000 ms, which is within
\* 3 x 8000 ms.
EveryCallSettles ==
    /\ [](\A c \in CallIds :
             /\ calls[c].attempts <= DefaultRetries + 1
             /\ SumSeq(calls[c].waits) <= 2000 + 4000 + 8000
             /\ SumSeq(calls[c].waits) <= DefaultRetries * 8000)
    /\ \A c \in CallIds : InFlight(calls[c]) ~> Settled(calls[c])

EveryCallSettlesWitness ==
    \E c \in CallIds :
       /\ Settled(calls[c])
       /\ calls[c].attempts = 4
       /\ SumSeq(calls[c].waits) = 14000

(***************************************************************************)
(* Properties of the rolling audio buffer.                                 *)
(***************************************************************************)
Min(a, b) == IF a < b THEN a ELSE b

\* C6: after every push the buffer holds exactly the last min(n, 110) of the
\* n chunks pushed since it was last emptied, in arrival order; so it never
\* holds more than 110 chunks and the oldest chunk is the one evicted.
RollingBufferHoldsLastChunks ==
    /\ Len(audioBuffer) = Min(captured, 110)
    /\ Len(audioBuffer) <= maxChunks
    /\ \A i \in 1..Len(audioBuffer) :
          audioBuffer[i].seq = captured - Len(audioBuffer) + i

\* a buffer that has evicted its two oldest chunks
RollingBufferWitness ==
    /\ captured = maxChunks + 2
    /\ Len(audioBuffer) = maxChunks
    /\ audioBuffer[1].seq = 3
    /\ audioBuffer[maxChunks].seq = captured

\* a new file or the demo has been loaded
MediaChange == mediaSrc = "none" /\ mediaSrc' # "none"

\* the video resumes after a pause
PauseStateExit == VideoMounted /\ isPaused /\ videoPaused /\ ~videoPaused'

\* the player goes back to the upload screen
Teardown == mediaSrc # "none" /\ mediaSrc' = "none"

\* C9: the buffer is empty right after a media change, after playback
\* resumes from a pause, and after the reset to the upload screen.
BufferClearedOnLifecycle ==
    [][(MediaChange \/ PauseStateExit \/ Teardown) => audioBuffer' = <<>>]_vars

\* handleSubmit has just flattened the buffer
Flattened == ~pendingSubmit.active /\ pendingSubmit'.active

\* sample k of c1 ++ ... ++ cm, every chunk holding ChunkLen samples
ConcatSample(buffer, k) ==
    Samples(buffer[((k - 1) \div ChunkLen) + 1])[((k - 1) % ChunkLen) + 1]

\* the lengths |c1|, ..., |cm|
ChunkLengths(buffer) == [i \in 1..Len(buffer) |-> Len(Samples(buffer[i]))]

\* C7: the flattening done in handleSubmit of a buffer [c1, ..., cm] has
\* length |c1| + ... + |cm| and is c1 ++ ... ++ cm sample for sample, and it
\* leaves the buffer as it was.
FlattenIsConcatenation ==
    [][Flattened =>
          LET flat == pendingSubmit'.flat IN
          /\ Len(flat) = SumSeq(ChunkLengths(audioBuffer))
          /\ \A k \in 1..Len(flat) : flat[k] = ConcatSample(audioBuffer, k)
          /\ audioBuffer' = audioBuffer]_vars

\* a flattening of three chunks that differ from one another
FlattenWitness ==
    /\ pendingSubmit.active
    /\ Len(audioBuffer) = 3
    /\ Len(pendingSubmit.flat) = 3 * ChunkLen
    /\ Samples(audioBuffer[1]) # Samples(audioBuffer[2])
    /\ Samples(audioBuffer[2]) # Samples(audioBuffer[3])
    /\ SubSeq(pendingSubmit.flat, 1, ChunkLen) = Samples(audioBuffer[1])

\* C8: while the video is paused an audio-process callback pushes nothing,
\* so the buffer stays what the pause found; a flattening done during the
\* pause is the concatenation of the chunks captured before the pause.
CaptureFrozenWhilePaused ==
    [][/\ (VideoMounted /\ videoPaused) => audioBuffer = bufferAtPause
       /\ (VideoMounted /\ videoPaused /\ VideoMounted' /\ videoPaused')
             => audioBuffer' = audioBuffer
       /\ (Flattened /\ VideoMounted /\ videoPaused)
             => /\ Len(pendingSubmit'.flat) = ChunkLen * Len(bufferAtPause)
                /\ \A k \in 1..Len(pendingSubmit'.flat) :
                      pendingSubmit'.flat[k] = ConcatSample(bufferAtPause, k)]_vars

\* a flattening during a pause that followed the capture of two chunks,
\* with the audio context still running
FlattenWhilePausedWitness ==
    /\ VideoMounted /\ videoPaused /\ isPaused
    /\ audioCtx.state = "running" /\ audioCtx.processor
    /\ pendingSubmit.active
    /\ Len(bufferAtPause) = 2
    /\ Len(pendingSubmit.flat) = 2 * ChunkLen

(***************************************************************************)
(* Properties of the WAV encoder.                                          *)
(***************************************************************************)
\* getUint16(offset, true) and getUint32(offset, true) of a parsed header
ReadUint16(bytes, offset) == bytes[offset + 1] + 256 * bytes[offset + 2]

ReadUint32(bytes, offset) ==
    IF bytes[offset + 4] >= 128 THEN -1
    ELSE bytes[offset + 1] + 256 * bytes[offset + 2] + 65536 * bytes[offset + 3]
         + 16777216 * bytes[offset + 4]

\* C10: encodeWAV of N samples at rate R returns 44 + 2N bytes whose header
\* reads back as 1 channel, 16 bits per sample, sample rate R and a data
\* chunk of 2N bytes, with RIFF size 36 + 2N, byte rate 2R and block align 2.
WavHeaderRoundTrip ==
    wav.done =>
        LET N == Len(wav.samples)
            R == wav.rate
        IN /\ Len(wav.bytes) = 44 + 2 * N
           /\ ReadUint16(wav.bytes, 22) = 1
           /\ ReadUint16(wav.bytes, 34) = 16
           /\ ReadUint32(wav.bytes, 24) = R
           /\ ReadUint32(wav.bytes, 40) = 2 * N
           /\ ReadUint32(wav.bytes, 4) = 36 + 2 * N
           /\ ReadUint32(wav.bytes, 28) = 2 * R
           /\ ReadUint16(wav.bytes, 32) = 2

\* three samples encoded at 44100 Hz
WavHeaderWitness ==
    /\ wav.done
    /\ Len(wav.samples) = 3
    /\ wav.rate = 44100
    /\ Len(wav.bytes) = 50

\* getInt16(offset, true)
ReadInt16(bytes, offset) ==
    LET u == ReadUint16(bytes, offset) IN IF u >= 32768 THEN u - 65536 ELSE u

\* the PCM integer stored for sample i
StoredPcm(i) == ReadInt16(wav.bytes, 44 + 2 * (i - 1))

\* p is x (in 1/FullScale units, within [-1, 1]) times scale, truncated
\* toward zero
IsTruncatedScaling(p, x, scale) ==
    IF x >= 0
    THEN p >= 0 /\ p * FullScale <= x * scale /\ x * scale < (p + 1) * FullScale
    ELSE p <= 0 /\ (-p) * FullScale <= (-x) * scale
                /\ (-x) * scale < ((-p) + 1) * FullScale

\* C11: floatTo16BitPCM stores, for each sample, the sample clamped to
\* [-1, 1] and scaled by 32768 when negative and by 32767 otherwise,
\* truncated: -2.0, -1.0, 0.0, 1.0, 2.0 become -32768, -32768, 0, 32767,
\* 32767, and no stored integer has wrapped around 16 bits.
PcmClampedAndScaled ==
    wav.done =>
        \A i \in 1..Len(wav.samples) :
            LET x == wav.samples[i]
                p == StoredPcm(i)
            IN /\ p >= -32768 /\ p <= 32767
               /\ (x = -2 * FullScale) => p = -32768
               /\ (x = -FullScale) => p = -32768
               /\ (x = 0) => p = 0
               /\ (x = FullScale) => p = 32767
               /\ (x = 2 * FullScale) => p = 32767
               /\ (x < -FullScale) => p = -32768
               /\ (x > FullScale) => p = 32767
               /\ (x >= -FullScale /\ x < 0) => IsTruncatedScaling(p, x, 32768)
               /\ (x >= 0 /\ x <= FullScale) => IsTruncatedScaling(p, x, 32767)

\* an encoding of -2.0, 2.0 and a fraction of full scale
PcmClampedWitness ==
    /\ wav.done
    /\ wav.samples = <<-2 * FullScale, 2 * FullScale, 1>>
    /\ StoredPcm(1) = -32768
    /\ StoredPcm(2) = 32767

(***************************************************************************)
(* Properties of the two request kinds.                                    *)
(***************************************************************************)
\* the call's last attempt has been answered and handled
Answered(k) == k.pc \in {"waiting", "resolved", "rejected"}

\* the service call succeeded without a text
NoText(resp) == ~resp.threw /\ resp.text = <<>>

\* C12: an analyzeFrameWithQuery attempt the service answers without a text
\* rejects the call at once, whatever retries remain: no wait follows it,
\* and when it is the first attempt the service was called exactly once.
EmptyResponseNotRetried ==
    \A c \in CallIds :
        LET k == calls[c] IN
        (k.kind = "analyze" /\ Answered(k) /\ NoText(k.resp)) =>
            /\ k.pc = "rejected"
            /\ k.result.threw /\ k.result.err = NoTextError
            /\ k.result.id = k.attempts
            /\ Len(k.waits) = k.attempts - 1
            /\ \A i \in 1..(k.attempts - 1) : k.log[i] = "ratelimit"
            /\ (k.retries = DefaultRetries) => (k.attempts = 1 /\ k.waits = <<>>)

\* a first attempt answered without a text, all three retries left
EmptyResponseWitness ==
    \E c \in CallIds :
        /\ calls[c].kind = "analyze" /\ calls[c].pc = "rejected"
        /\ NoText(calls[c].resp)
        /\ calls[c].retries = 3 /\ calls[c].attempts = 1

\* C13: a detectCharactersInFrame attempt answered with an empty JSON array,
\* or without a text, resolves the call to the empty list; as the first
\* attempt, after exactly one service call.
EmptyIdentificationResolves ==
    \A c \in CallIds :
        LET k == calls[c] IN
        (k.kind = "detect" /\ Answered(k) /\ ~k.resp.threw
            /\ k.resp.text \in {<<>>, <<"[", "]">>}) =>
            /\ k.pc = "resolved"
            /\ ~k.result.threw
            /\ k.result.val.tag = "array" /\ k.result.val.items = <<>>
            /\ Len(k.waits) = k.attempts - 1
            /\ (k.retries = DefaultRetries) => (k.attempts = 1 /\ k.waits = <<>>)

\* a first attempt answered without a text and resolved
EmptyIdentificationWitness ==
    \E c \in CallIds :
        /\ calls[c].kind = "detect" /\ calls[c].pc = "resolved"
        /\ NoText(calls[c].resp)
        /\ calls[c].attempts = 1
        /\ calls[c].result.val.items = <<>>

\* the text is JSON matching the declared schema: an array of boxes
MatchesSchema(text) ==
    /\ Len(text) >= 2 /\ Head(text) = "[" /\ text[Len(text)] = "]"
    /\ \A i \in 2..(Len(text) - 1) : text[i] = "box"

\* C14: a detectCharactersInFrame attempt answered with a text that is not
\* JSON, or is JSON violating the declared schema, rejects the call.
MalformedIdentificationRejects ==
    \A c \in CallIds :
        LET k == calls[c] IN
        (k.kind = "detect" /\ Answered(k) /\ ~k.resp.threw /\ k.resp.text # <<>>
            /\ ~MatchesSchema(StripFences(k.resp.text))) =>
            k.pc = "rejected"

(***************************************************************************)
(* Properties of the application's request state.                          *)
(***************************************************************************)
\* a request completion: App.handleAnalyze / App.handleIdentify resuming
\* after its await
Completion == \E c \in CallIds : calls[c].pc = "awaiting" /\ calls'[c].pc = "idle"

\* C15: the request state goes Idle -> Requesting -> {Success | Failed},
\* and once Failed (ERROR) it is left only by the user's dismissal; stated
\* here in its weakest form: no request completion ever moves the state
\* out of ERROR.
FailedLeftOnlyByUser ==
    [][(appState = "ERROR" /\ appState' # "ERROR") => ~Completion]_vars

\* C16: at most one request, of either kind, is outstanding at any time.
SingleFlight ==
    Cardinality({c \in CallIds : InFlight(calls[c])}) <= 1

(***************************************************************************)
(* Properties of the local capture failure.                                *)
(***************************************************************************)
\* handleSubmit resuming after its await with the null snapshot it took
ResumesWithoutSnapshot ==
    /\ pendingSubmit.active /\ pendingSubmit.dataUrl = "null"
    /\ ~pendingSubmit'.active

\* C17: whenever getSnapshot returns null, handleSubmit (at once, or when it
\* resumes after the audio conversion) and handleIdentifyClick end without
\* invoking onAnalyze / onIdentify: no call to the service starts, none is
\* retried, and no request carries a null image.
LocalCaptureFailureAborts ==
    [][/\ (snapshot' = "null" \/ ResumesWithoutSnapshot) =>
            (calls' = calls /\ UNCHANGED appVars)
       /\ \A c \in CallIds : calls'[c].pc # "idle" => calls'[c].args.image # "null"]_vars

\* getSnapshot has returned null to a handler while the other request slot
\* was busy, and to a handleSubmit that went on to convert its audio
LocalCaptureFailureWitness ==
    /\ snapshot = "null"
    /\ pendingSubmit.active /\ pendingSubmit.dataUrl = "null"
    /\ \E c \in CallIds : InFlight(calls[c])

\* a handler ends on the null snapshot it took: handleIdentifyClick, or
\* handleSubmit at once or when it resumes after the audio conversion
EndsWithoutSnapshot ==
    \/ snapshot' = "null" /\ ~pendingSubmit'.active
    \/ snapshot' = "null" /\ pendingSubmit.active
    \/ ResumesWithoutSnapshot

\* C18: an ask or identify action whose getSnapshot returned null leaves
\* the application in its error state.
LocalCaptureFailureSurfaced ==
    [][EndsWithoutSnapshot => appState' = "ERROR"]_vars

CarriesWavOf(k, chunks) ==
    /\ k.args.audio.mime = "audio/wav"
    /\ cleanBase64Audio(k.args.audio) =
          Base64(encodeWAV(Flatten(chunks), k.args.audio.rate))

RetryState(k) == <<k.retries, k.delay>>

\* C21: with two calls running side by side each has its own remaining
\* attempts and delay: a step of one call leaves the other call as it was,
\* the retry state of a call is what its own attempts made it (one retry
\* consumed and the delay doubled per attempt after the first), and each
\* call makes at most 4 attempts.
RetryStatePerCall ==
    [][\A c \in CallIds :
         /\ calls'[c] # calls[c] =>
               \A d \in CallIds \ {c} : calls'[d] = calls[d]
         /\ calls'[c].pc # "idle" =>
               /\ calls'[c].attempts \in 1..(DefaultRetries + 1)
               /\ RetryState(calls'[c]) =
                     <<DefaultRetries - (calls'[c].attempts - 1),
                       DefaultDelay * Pow2(calls'[c].attempts - 1)>>
               /\ Len(calls'[c].waits) \in
                     {calls'[c].attempts - 1, calls'[c].attempts}]_vars

\* one call has used up its budget while the other, begun meanwhile, is
\* at its first attempt
RetryStatePerCallWitness ==
    \E c, d \in CallIds :
        /\ calls[c].pc = "rejected" /\ calls[c].attempts = DefaultRetries + 1
        /\ calls[c].retries = 0
        /\ calls[d].pc = "awaiting" /\ calls[d].attempts = 1
        /\ RetryState(calls[d]) = <<DefaultRetries, DefaultDelay>>

(***************************************************************************)
(* Properties of the recursion.                                            *)
(***************************************************************************)
\* the explicit loop: an attempt counter, the attempts still allowed after
\* the current one, and a delay variable; the loop ends at the first value,
\* at the first error that is not a rate limit, or with the budget used up
RECURSIVE LoopFrom(_, _, _, _, _)
LoopFrom(outs, attempt, remaining, delay, waits) ==
    LET out == outs[attempt] IN
    IF out.threw /\ remaining > 0 /\ isRateLimit(out.err)
    THEN LoopFrom(outs, attempt + 1, remaining - 1, delay * 2, Append(waits, delay))
    ELSE [attempts |-> attempt, waits |-> waits, result |-> out]

retryLoop(outs, budget, delay) == LoopFrom(outs, 1, budget, delay, <<>>)

\* C22: for every sequence of per-attempt outcomes and every initial budget
\* the recursive retryWithBackoff makes the attempts, waits the delays and
\* settles with the outcome of the explicit loop.
RecursionIsLoop ==
    trial.done => trial.run = retryLoop(trial.outs, trial.retries, trial.delay)

\* a call that retried more than once and so went through nested
\* invocations, ending with a value
RecursionIsLoopWitness ==
    /\ trial.done
    /\ trial.run.attempts = 3 /\ Len(trial.run.waits) = 2
    /\ ~trial.run.result.threw /\ trial.run.result.id = 3

(***************************************************************************)
(* Properties of the application's overlays.                               *)
(***************************************************************************)
\* C23: while an analyze or identify request is outstanding, appState is
\* ANALYZING.
BusyWhileOutstanding ==
    (\E c \in CallIds : InFlight(calls[c])) => appState = "ANALYZING"

\* C24: boundingBoxes is non-null only when appState is PLAYING: the
\* annotations never show together with the result card, the error toast
\* or the analyzing scanner.
OverlaysExclusive ==
    boundingBoxes # NoValue => appState = "PLAYING"

\* C25: while the annotations are shown over a video, the video is paused.
AnnotationsOverPausedFrame ==
    (showAnnotations /\ VideoMounted) => videoPaused

\* C26: whenever appState is RESULT, analysisResult is the value of an
\* analyze call, with a non-empty answer.
ResultHasAnswer ==
    appState = "RESULT" =>
        /\ analysisResult # NoValue
        /\ analysisResult.tag = "answer"
        /\ analysisResult.answer # <<>>

\* an answer has arrived while an identification, begun after the ask, was
\* outstanding
ResultHasAnswerWitness ==
    /\ appState = "RESULT"
    /\ analysisResult.tag = "answer"
    /\ \E c \in CallIds : InFlight(calls[c]) /\ calls[c].kind = "detect"

(***************************************************************************)
(* Properties of the error classification.                                 *)
(***************************************************************************)
\* C27: the error a call is rejected with was treated as a rate limit by
\* retryWithBackoff exactly when App.getFriendlyErrorMessage reports it as
\* high traffic.
ClassificationConsistent ==
    \A c \in CallIds :
        calls[c].pc = "rejected" =>
            (isRateLimit(calls[c].result.err)
                <=> getFriendlyErrorMessage(calls[c].result.err) = "HighTraffic")

\* an identification resolving to the empty list reaches App.handleIdentify:
\* the error state, the message and no boxes
EmptyIdentificationShown ==
    [][(errorMsg # "NoCharacters" /\ errorMsg' = "NoCharacters") =>
          /\ \E c \in CallIds : /\ calls[c].pc = "awaiting" /\ calls[c].kind = "detect"
                                 /\ calls'[c].pc = "idle"
          /\ appState' = "ERROR"
          /\ boundingBoxes' = NoValue]_vars

\* C28: boundingBoxes is null or a list with at least one box, never the
\* empty list.
BoxesNullOrNonEmpty ==
    \/ boundingBoxes = NoValue
    \/ boundingBoxes.tag = "array" /\ Len(boundingBoxes.items) >= 1

(***************************************************************************)
(* Properties of the capture and of the audio attached to a request.       *)
(***************************************************************************)
\* C29: while no video is loaded (the upload screen, or a static image),
\* the audio-process callbacks push no chunk and the rolling buffer is
\* empty.
NoCaptureWithoutVideo ==
    ~VideoMounted => audioBuffer = <<>>

\* the test handleSubmit makes before it flattens the buffer
CanAttachAudio ==
    mediaType = "video" /\ Len(audioBuffer) > 0 /\ audioCtx.state # "null"

\* the parts sent for request k
PartsOf(k) == parts(k.args.image, k.args.query, k.args.audio)

\* C30: handleSubmit encodes the buffer exactly when the media is a video,
\* the buffer is non-empty and an audio context exists; a request carries
\* audio only if it is started by such a handleSubmit once its conversion
\* has settled, and then carries the converted clip; a request for the
\* frame of a static image carries none; and the parts sent are the image,
\* then the audio/wav part exactly when audio was passed, then the text.
AudioAttachedWhenCaptured ==
    [][/\ snapshot' # "none" => (Flattened <=> CanAttachAudio)
       /\ \A c \in CallIds :
            (calls[c].pc = "idle" /\ calls'[c].pc # "idle") =>
               LET k == calls'[c]
                   sent == PartsOf(k)
               IN /\ k.args.audio # NoAudio =>
                        /\ pendingSubmit.active /\ ~pendingSubmit'.active
                        /\ k.args.audio = blobToBase64(pendingSubmit)
                  /\ (\E f \in Files : f.type = "image" /\ k.args.image = f.url) =>
                        k.args.audio = NoAudio
                  /\ sent[1].mimeType = "image/jpeg" /\ sent[1].image = k.args.image
                  /\ sent[Len(sent)].kind = "text"
                  /\ sent[Len(sent)].query = k.args.query
                  /\ IF k.args.audio # NoAudio
                     THEN /\ Len(sent) = 3
                          /\ sent[2].mimeType = "audio/wav"
                          /\ sent[2].audio = k.args.audio.data
                     ELSE Len(sent) = 2]_vars

\* a request with the captured audio is outstanding next to one without
AudioAttachedWitness ==
    \E c, d \in CallIds :
        /\ InFlight(calls[c]) /\ calls[c].args.audio # NoAudio
        /\ Len(PartsOf(calls[c])) = 3
        /\ InFlight(calls[d]) /\ calls[d].args.audio = NoAudio
        /\ Len(PartsOf(calls[d])) = 2

====
